---- MODULE Spec2Model ----
(***************************************************************************)
(* A model of IS0502Test.py: the conformance checks that compare a Node    *)
(* API (IS-04) with a Connection API (IS-05).                              *)
(*                                                                         *)
(* The device under test is the environment: every HTTP response, every    *)
(* activation and every park result is drawn from a small set.  Python     *)
(* strings that the code edits (rstrip, urlparse) are sequences of         *)
(* tokens; JSON objects are records whose DOMAIN is the set of keys the    *)
(* object has, so that a missing key is a KeyError and not a default.      *)
(***************************************************************************)
EXTENDS Integers, Sequences, FiniteSets, TLC

VARIABLES
    apis,            \* self.apis: major / minor version of the two APIs
    is04_resources,  \* self.is04_resources: senders, receivers, _requested
    is05_resources,  \* self.is05_resources: senders, receivers, _requested
    ran,             \* the test cases that have returned a verdict
    inp,             \* the arguments a pure helper is applied to
    last             \* the last call: its name, arguments, result and requests

vars == <<apis, is04_resources, is05_resources, ran, inp, last>>

NODE_API_KEY == "node"
CONN_API_KEY == "connection"

Kinds == {"senders", "receivers"}

\* The longest cache SpecCache lets the fetchers build (refresh appends).
MaxCache == 3

(***************************************************************************)
(* Python values                                                           *)
(***************************************************************************)

\* str.rstrip("/") on a string held as a sequence of tokens.
RECURSIVE rstrip(_)
rstrip(s) ==
    IF s # <<>> /\ s[Len(s)] = "/" THEN rstrip(SubSeq(s, 1, Len(s) - 1)) ELSE s

\* x in list
InList(x, l) == \E i \in DOMAIN l : l[i] = x

\* list.remove(x): the first occurrence goes
RECURSIVE ListRemove(_, _)
ListRemove(l, x) ==
    IF l = <<>> THEN <<>>
    ELSE IF Head(l) = x THEN Tail(l)
    ELSE <<Head(l)>> \o ListRemove(Tail(l), x)

\* key in dict
HasKey(d, k) == k \in DOMAIN d

\* JSON values of mixed type: null, a boolean, a string
JNull == [t |-> "null"]
JBool(b) == [t |-> "bool", v |-> b]
JStr(s) == [t |-> "str", v |-> s]

\* The responses of do_request: (False, error), (True, non-JSON body),
\* (True, body)
RespFail == [st |-> "fail"]
RespNonJson == [st |-> "nonjson"]
RespJson(body) == [st |-> "ok", body |-> body]

GET(url) == [method |-> "GET", url |-> url]

EmptyCache == [k \in Kinds \cup {"_requested"} |-> <<>>]

(***************************************************************************)
(* The fetchers                                                            *)
(***************************************************************************)

\* get_is04_resources from its request on (the cache was not used)
is04_fetch(c, resource_type, resp) ==
    IF resp.st = "fail"
    THEN [cache |-> c, ok |-> FALSE, msg |-> "Node API did not respond as expected",
          http |-> <<GET(<<NODE_API_KEY, resource_type>>)>>]
    ELSE IF resp.st = "nonjson"
    THEN [cache |-> c, ok |-> FALSE, msg |-> "Non-JSON response returned from Node API",
          http |-> <<GET(<<NODE_API_KEY, resource_type>>)>>]
    ELSE [cache |-> [c EXCEPT ![resource_type] = @ \o resp.body,
                              !["_requested"] = Append(@, resource_type)],
          ok |-> TRUE, msg |-> "",
          http |-> <<GET(<<NODE_API_KEY, resource_type>>)>>]

\* get_is04_resources without its "already requested" test
get_is04_resources_always(c, resource_type, resp) ==
    is04_fetch(c, resource_type, resp)

get_is04_resources(c, resource_type, resp) ==
    IF InList(resource_type, c["_requested"])
    THEN [cache |-> c, ok |-> TRUE, msg |-> "", http |-> <<>>]
    ELSE is04_fetch(c, resource_type, resp)

refresh_is04_resources(c, resource_type, resp) ==
    LET c1 == IF InList(resource_type, c["_requested"])
              THEN [c EXCEPT !["_requested"] = ListRemove(@, resource_type)]
              ELSE c
    IN  get_is04_resources(c1, resource_type, resp)

\* for resource in resources.json(): append(resource.rstrip("/"))
StripAll(ids) == [i \in DOMAIN ids |-> rstrip(ids[i])]

get_is05_resources(c, resource_type, resp) ==
    IF InList(resource_type, c["_requested"])
    THEN [cache |-> c, ok |-> TRUE, msg |-> "", http |-> <<>>]
    ELSE IF resp.st = "fail"
    THEN [cache |-> c, ok |-> FALSE, msg |-> "Connection API did not respond as expected",
          http |-> <<GET(<<CONN_API_KEY, "single", resource_type>>)>>]
    ELSE IF resp.st = "nonjson"
    THEN [cache |-> c, ok |-> FALSE, msg |-> "Non-JSON response returned from Node API",
          http |-> <<GET(<<CONN_API_KEY, "single", resource_type>>)>>]
    ELSE [cache |-> [c EXCEPT ![resource_type] = @ \o StripAll(resp.body),
                              !["_requested"] = Append(@, resource_type)],
          ok |-> TRUE, msg |-> "",
          http |-> <<GET(<<CONN_API_KEY, "single", resource_type>>)>>]

(***************************************************************************)
(* The JSON the device returns                                             *)
(***************************************************************************)

RTP == "urn:x-nmos:transport:rtp"
WEBSOCKET == "urn:x-nmos:transport:websocket"
\* a transport no version of the Connection API handles
OTHER_TRANSPORT == "urn:x-nmos:transport:other"

IdA == <<"a">>
IdB == <<"b">>
Ids == {IdA, IdB}

\* the key of the subscription that names the other end
CrossKey(resource_type) ==
    IF resource_type = "senders" THEN "receiver_id" ELSE "sender_id"

Subscription(resource_type, active, cross) ==
    [k \in {"active", CrossKey(resource_type)} |->
        IF k = "active" THEN active ELSE cross]

\* A Node API sender or receiver with every key the checks read.
NodeRes(resource_type, id, transport, version, active, cross, bindings) ==
    [id |-> id, transport |-> transport, version |-> version,
     subscription |-> Subscription(resource_type, active, cross),
     interface_bindings |-> bindings]

\* The same object without key k.
Without(r, k) == [x \in DOMAIN r \ {k} |-> r[x]]

Parked(resource_type, id, version) ==
    NodeRes(resource_type, id, RTP, version, JBool(FALSE), JNull, <<"eth0">>)

(***************************************************************************)
(* Calls of the fetchers on their own                                      *)
(***************************************************************************)

InitCommon ==
    /\ is04_resources = EmptyCache
    /\ is05_resources = EmptyCache
    /\ ran = {}
    /\ inp = <<>>
    /\ last = [op |-> "init"]

V(major, minor) == [major_version |-> major, minor_version |-> minor]

Call_get_is04_resources(NodePool) ==
    \E k \in Kinds : \E resp \in NodePool[k] :
        LET r == get_is04_resources(is04_resources, k, resp) IN
        /\ Len(r.cache[k]) <= MaxCache
        /\ is04_resources' = r.cache
        /\ last' = [op |-> "get_is04_resources", kind |-> k, ok |-> r.ok,
                    msg |-> r.msg, http |-> r.http]
        /\ UNCHANGED <<apis, is05_resources, ran, inp>>

Call_refresh_is04_resources(NodePool) ==
    \E k \in Kinds : \E resp \in NodePool[k] :
        LET r == refresh_is04_resources(is04_resources, k, resp) IN
        /\ Len(r.cache[k]) <= MaxCache
        /\ is04_resources' = r.cache
        /\ last' = [op |-> "refresh_is04_resources", kind |-> k, ok |-> r.ok,
                    msg |-> r.msg, http |-> r.http]
        /\ UNCHANGED <<apis, is05_resources, ran, inp>>

Call_get_is05_resources(ConnPool) ==
    \E k \in Kinds : \E resp \in ConnPool[k] :
        LET r == get_is05_resources(is05_resources, k, resp) IN
        /\ Len(r.cache[k]) <= MaxCache
        /\ is05_resources' = r.cache
        /\ last' = [op |-> "get_is05_resources", kind |-> k, ok |-> r.ok,
                    msg |-> r.msg, http |-> r.http]
        /\ UNCHANGED <<apis, is04_resources, ran, inp>>

\* Listings of parked resources a and b, in any state of the API
CacheNodePool ==
    [k \in Kinds |->
        {RespFail, RespNonJson, RespJson(<<>>),
         RespJson(<<Parked(k, IdA, 1)>>),
         RespJson(<<Parked(k, IdA, 2), Parked(k, IdB, 1)>>)}]

CacheConnPool ==
    [k \in Kinds |->
        {RespFail, RespNonJson, RespJson(<<>>),
         RespJson(<<<<"a", "/">>>>),
         RespJson(<<<<"a", "/">>, <<"b">>>>)}]

InitCache ==
    /\ InitCommon
    /\ apis = [node |-> V(1, 2), connection |-> V(1, 0)]

NextCache ==
    \/ Call_get_is04_resources(CacheNodePool)
    \/ Call_refresh_is04_resources(CacheNodePool)
    \/ Call_get_is05_resources(CacheConnPool)

SpecCache == InitCache /\ [][NextCache]_vars

\* C1: once a kind is in an API's _requested list, a call of
\* get_is04_resources(kind) / get_is05_resources(kind) returns success, issues
\* no HTTP request and leaves that API's cache and marker list as they were;
\* only refresh_is04_resources(kind) fetches again.
C1_NoRefetchOnceRequested ==
    [][\A k \in Kinds :
        /\ (/\ InList(k, is04_resources["_requested"])
            /\ last'.op = "get_is04_resources"
            /\ last'.kind = k)
           => (last'.ok /\ last'.http = <<>> /\ is04_resources' = is04_resources)
        /\ (/\ InList(k, is05_resources["_requested"])
            /\ last'.op = "get_is05_resources"
            /\ last'.kind = k)
           => (last'.ok /\ last'.http = <<>> /\ is05_resources' = is05_resources)
        /\ (last'.op = "refresh_is04_resources" /\ last'.kind = k)
           => last'.http # <<>>]_vars

\* A get of a kind that was fetched, refreshed and is marked again.
C1_Witness ==
    /\ last.op = "get_is04_resources"
    /\ last.http = <<>>
    /\ InList(last.kind, is04_resources["_requested"])
    /\ Len(is04_resources[last.kind]) = 3
    /\ InList("senders", is05_resources["_requested"])

(***************************************************************************)
(* compare_urls                                                            *)
(***************************************************************************)

\* A URL is the sequence of its tokens: a scheme, "://", a host, then any of
\* ":" and a port, "/" and path segments, "?" and a query, "#" and a fragment.

\* The first index of s holding a token of set T, or Len(s) + 1.
RECURSIVE FirstOf(_, _, _)
FirstOf(s, T, i) ==
    IF i > Len(s) THEN Len(s) + 1
    ELSE IF s[i] \in T THEN i
    ELSE FirstOf(s, T, i + 1)

\* str.lower() on a scheme or a host token
Lower(tok) ==
    CASE tok = "H" -> "h"
      [] tok = "HTTP" -> "http"
      [] OTHER -> tok

\* int() of a port token
PortNumber(tok) ==
    CASE tok = "80" -> 80
      [] tok = "443" -> 443
      [] OTHER -> 8080

JInt(n) == [t |-> "int", v |-> n]

\* urllib.parse.urlparse, with the .hostname and .port of its result
urlparse(url) ==
    LET hasScheme == Len(url) >= 2 /\ url[2] = "://"
        scheme == IF hasScheme THEN Lower(url[1]) ELSE ""
        rest == IF hasScheme THEN SubSeq(url, 3, Len(url)) ELSE url
        netEnd == IF hasScheme THEN FirstOf(rest, {"/", "?", "#"}, 1) ELSE 1
        netloc == SubSeq(rest, 1, netEnd - 1)
        after == SubSeq(rest, netEnd, Len(rest))
        hash == FirstOf(after, {"#"}, 1)
        noFrag == SubSeq(after, 1, hash - 1)
        quest == FirstOf(noFrag, {"?"}, 1)
        colon == FirstOf(netloc, {":"}, 1)
    IN  [scheme |-> scheme,
         netloc |-> netloc,
         path |-> SubSeq(noFrag, 1, quest - 1),
         query |-> SubSeq(noFrag, quest + 1, Len(noFrag)),
         fragment |-> SubSeq(after, hash + 1, Len(after)),
         hostname |-> IF netloc = <<>> \/ colon = 1 THEN JNull
                      ELSE JStr(Lower(netloc[1])),
         port |-> IF colon + 1 <= Len(netloc)
                  THEN JInt(PortNumber(netloc[colon + 1])) ELSE JNull]

\* ports[index] after the loop that fills in the scheme's default
DefaultedPort(parsed) ==
    IF parsed.port = JNull /\ parsed.scheme = "http" THEN JInt(80)
    ELSE IF parsed.port = JNull /\ parsed.scheme = "https" THEN JInt(443)
    ELSE parsed.port

compare_urls(url1, url2) ==
    LET url1_parsed == urlparse(rstrip(url1))
        url2_parsed == urlparse(rstrip(url2))
    IN  IF url1_parsed.scheme # url2_parsed.scheme THEN FALSE
        ELSE IF url1_parsed.hostname # url2_parsed.hostname THEN FALSE
        ELSE IF url1_parsed.path # url2_parsed.path THEN FALSE
        ELSE IF DefaultedPort(url1_parsed) # DefaultedPort(url2_parsed) THEN FALSE
        ELSE TRUE

Call_compare_urls ==
    /\ last.op = "init"
    /\ last' = [op |-> "compare_urls",
                result |-> compare_urls(inp.url1, inp.url2)]
    /\ UNCHANGED <<apis, is04_resources, is05_resources, ran, inp>>

MkUrl(scheme, host, port, path, query, fragment) ==
    <<scheme, "://", host>> \o port \o path \o query \o fragment

UrlPool ==
    {MkUrl(scheme, host, port, path, query, fragment) :
        scheme \in {"http", "https"}, host \in {"h", "H", "g"},
        port \in {<<>>, <<":", "80">>, <<":", "443">>},
        path \in {<<>>, <<"/">>, <<"/", "p">>, <<"/", "p", "/">>},
        query \in {<<>>, <<"?", "q">>},
        fragment \in {<<>>, <<"#", "f">>}}

InitUrl ==
    /\ is04_resources = EmptyCache
    /\ is05_resources = EmptyCache
    /\ ran = {}
    /\ last = [op |-> "init"]
    /\ apis = [node |-> V(1, 2), connection |-> V(1, 0)]
    /\ inp \in [url1 : UrlPool, url2 : UrlPool]

NextUrl == Call_compare_urls

SpecUrl == InitUrl /\ [][NextUrl]_vars

\* The URL without its query string and fragment.
DropQueryFragment(url) == SubSeq(url, 1, FirstOf(url, {"?", "#"}, 1) - 1)

\* The URL's path with its trailing slashes stripped.
StrippedPath(url) == rstrip(urlparse(DropQueryFragment(url)).path)

\* The port the URL is served on: the one written, or the scheme's default.
EffectivePort(url) ==
    LET parsed == urlparse(url) IN
    IF parsed.port # JNull THEN parsed.port.v
    ELSE IF parsed.scheme = "http" THEN 80
    ELSE IF parsed.scheme = "https" THEN 443
    ELSE 0

\* compare_urls is symmetric.
C9_Symmetric ==
    last.op = "compare_urls" => last.result = compare_urls(inp.url2, inp.url1)

\* compare_urls is true iff scheme, hostname, path (trailing slashes
\* stripped) and effective port agree.
C9_Iff ==
    last.op = "compare_urls" =>
        (last.result <=>
            /\ urlparse(inp.url1).scheme = urlparse(inp.url2).scheme
            /\ urlparse(inp.url1).hostname = urlparse(inp.url2).hostname
            /\ StrippedPath(inp.url1) = StrippedPath(inp.url2)
            /\ EffectivePort(inp.url1) = EffectivePort(inp.url2))

\* Query strings and fragments do not affect the result of compare_urls.
C9_QueryFragmentIgnored ==
    last.op = "compare_urls" =>
        last.result = compare_urls(DropQueryFragment(inp.url1),
                                   DropQueryFragment(inp.url2))

\* C9: compare_urls is symmetric; it is true iff, after stripping trailing
\* slashes, scheme, hostname and path are equal and the effective ports (80
\* for http and 443 for https when absent) are equal; query strings and
\* fragments do not affect the result.
C9_CompareUrls ==
    C9_Symmetric /\ C9_Iff /\ C9_QueryFragmentIgnored

(***************************************************************************)
(* The set reconciliation of tests 3 and 4                                 *)
(***************************************************************************)

\* What a call gives back: a value, or an exception that leaves the function.
Return(v) == [raised |-> FALSE, value |-> v]
Raise(exc) == [raised |-> TRUE, exc |-> exc]

get_valid_transports(api) ==
    <<"urn:x-nmos:transport:rtp",
      "urn:x-nmos:transport:rtp.mcast",
      "urn:x-nmos:transport:rtp.ucast",
      "urn:x-nmos:transport:dash">>
    \o (IF api["major_version"] > 1
            \/ (api["major_version"] = 1 /\ api["minor_version"] >= 1)
        THEN <<"urn:x-nmos:transport:websocket", "urn:x-nmos:transport:mqtt">>
        ELSE <<>>)

\* The loop of check_is04_in_is05 over the rest of the Node cache; result is
\* the flag so far.  resource["transport"] and resource["id"] raise KeyError
\* on an object without the key.
RECURSIVE is04_in_is05_loop(_, _, _, _)
is04_in_is05_loop(rest, ids, valid_transports, result) ==
    IF rest = <<>> THEN Return(result)
    ELSE LET is04_resource == Head(rest) IN
         IF ~HasKey(is04_resource, "transport") THEN Raise("KeyError")
         ELSE IF InList(is04_resource["transport"], valid_transports)
         THEN IF ~HasKey(is04_resource, "id") THEN Raise("KeyError")
              ELSE IF ~InList(is04_resource["id"], ids)
              THEN is04_in_is05_loop(Tail(rest), ids, valid_transports, FALSE)
              ELSE is04_in_is05_loop(Tail(rest), ids, valid_transports, result)
         ELSE is04_in_is05_loop(Tail(rest), ids, valid_transports, result)

check_is04_in_is05(c04, c05, resource_type, api) ==
    is04_in_is05_loop(c04[resource_type], c05[resource_type],
                      get_valid_transports(api), TRUE)

\* The inner loop of check_is05_in_is04: is05_res_ok for one Connection id.
RECURSIVE is05_res_ok(_, _)
is05_res_ok(rest, is05_resource) ==
    IF rest = <<>> THEN Return(FALSE)
    ELSE IF ~HasKey(Head(rest), "id") THEN Raise("KeyError")
    ELSE IF Head(rest)["id"] = is05_resource THEN Return(TRUE)
    ELSE is05_res_ok(Tail(rest), is05_resource)

\* The outer loop of check_is05_in_is04, which breaks at the first id that
\* has no match.
RECURSIVE is05_in_is04_loop(_, _, _)
is05_in_is04_loop(ids, nodes, result) ==
    IF ids = <<>> THEN Return(result)
    ELSE LET found == is05_res_ok(nodes, Head(ids)) IN
         IF found.raised THEN found
         ELSE IF ~found.value THEN Return(FALSE)
         ELSE is05_in_is04_loop(Tail(ids), nodes, TRUE)

check_is05_in_is04(c04, c05, resource_type) ==
    is05_in_is04_loop(c05[resource_type], c04[resource_type], TRUE)

Call_check_is04_in_is05 ==
    \E k \in Kinds :
        /\ last' = [op |-> "check_is04_in_is05", kind |-> k,
                    result |-> check_is04_in_is05(is04_resources, is05_resources,
                                                  k, apis[CONN_API_KEY])]
        /\ UNCHANGED <<apis, is04_resources, is05_resources, ran, inp>>

Call_check_is05_in_is04 ==
    \E k \in Kinds :
        /\ last' = [op |-> "check_is05_in_is04", kind |-> k,
                    result |-> check_is05_in_is04(is04_resources, is05_resources, k)]
        /\ UNCHANGED <<apis, is04_resources, is05_resources, ran, inp>>

\* What a test case ends with: a verdict, or an exception nothing caught.
\* log holds the calls of the Connection API utilities the test case made.
VerdictLog(c04, c05, v, msg, http, log) ==
    [c04 |-> c04, c05 |-> c05, verdict |-> v, msg |-> msg, http |-> http,
     log |-> log]

Verdict(c04, c05, v, msg, http) == VerdictLog(c04, c05, v, msg, http, <<>>)

Uncaught == "UNCAUGHT"

\* The body that test_03 and test_04 share, for one kind.
is04_is05_match(resource_type, c04, c05, resp04, resp05) ==
    LET g4 == get_is04_resources(c04, resource_type, resp04)
        g5 == get_is05_resources(c05, resource_type, resp05)
        in05 == check_is04_in_is05(g4.cache, g5.cache, resource_type,
                                   apis[CONN_API_KEY])
        in04 == check_is05_in_is04(g4.cache, g5.cache, resource_type)
    IN  IF ~g4.ok THEN Verdict(g4.cache, c05, "FAIL", g4.msg, g4.http)
        ELSE IF ~g5.ok
        THEN Verdict(g4.cache, g5.cache, "FAIL", g5.msg, g4.http \o g5.http)
        ELSE IF in05.raised
        THEN Verdict(g4.cache, g5.cache, Uncaught, in05.exc, g4.http \o g5.http)
        ELSE IF ~in05.value
        THEN Verdict(g4.cache, g5.cache, "FAIL", "Unable to find all from IS-04 in IS-05",
                     g4.http \o g5.http)
        ELSE IF in04.raised
        THEN Verdict(g4.cache, g5.cache, Uncaught, in04.exc, g4.http \o g5.http)
        ELSE IF ~in04.value
        THEN Verdict(g4.cache, g5.cache, "FAIL", "Unable to find all from IS-05 in IS-04",
                     g4.http \o g5.http)
        ELSE Verdict(g4.cache, g5.cache, "PASS", "", g4.http \o g5.http)

\* A test case has run: the caches it leaves and what the runner gets back.
Ran(n, name, resource_type, out) ==
    /\ is04_resources' = out.c04
    /\ is05_resources' = out.c05
    /\ ran' = ran \cup {n}
    /\ last' = [op |-> name, test |-> n, kind |-> resource_type,
                verdict |-> out.verdict, msg |-> out.msg, http |-> out.http,
                log |-> out.log]
    /\ UNCHANGED <<apis, inp>>

test_03_is04_is05_rx_match(NodePool, ConnPool) ==
    /\ 3 \notin ran
    /\ \E resp04 \in NodePool["receivers"] : \E resp05 \in ConnPool["receivers"] :
        Ran(3, "test_03_is04_is05_rx_match", "receivers",
            is04_is05_match("receivers", is04_resources, is05_resources,
                            resp04, resp05))

test_04_is04_is05_tx_match(NodePool, ConnPool) ==
    /\ 4 \notin ran
    /\ \E resp04 \in NodePool["senders"] : \E resp05 \in ConnPool["senders"] :
        Ran(4, "test_04_is04_is05_tx_match", "senders",
            is04_is05_match("senders", is04_resources, is05_resources,
                            resp04, resp05))

\* Senders and receivers a and b with an in-scope transport, one that is in
\* scope from v1.1 on, one that never is, and objects that lack a key.
MatchResources(k) ==
    {Parked(k, IdA, 1), Parked(k, IdB, 1),
     [Parked(k, IdA, 1) EXCEPT !.transport = OTHER_TRANSPORT],
     [Parked(k, IdB, 1) EXCEPT !.transport = WEBSOCKET],
     Without(Parked(k, IdA, 1), "transport"),
     Without(Parked(k, IdB, 1), "id")}

MatchNodePool ==
    [k \in Kinds |->
        {RespFail, RespNonJson, RespJson(<<>>)}
        \cup {RespJson(<<r>>) : r \in MatchResources(k)}
        \cup {RespJson(<<r, Parked(k, IdA, 1)>>) :
                 r \in {Parked(k, IdB, 1), Without(Parked(k, IdA, 1), "transport"),
                        Without(Parked(k, IdB, 1), "id")}}
        \cup {RespJson(<<Parked(k, IdA, 1),
                         [Parked(k, IdB, 1) EXCEPT !.transport = WEBSOCKET]>>)}]

MatchConnPool ==
    [k \in Kinds |->
        {RespFail, RespNonJson, RespJson(<<>>),
         RespJson(<<<<"a", "/">>>>), RespJson(<<<<"b">>>>),
         RespJson(<<<<"a", "/">>, <<"b", "/">>>>),
         RespJson(<<<<"b">>, <<"a">>>>)}]

InitMatch ==
    /\ InitCommon
    /\ apis \in [node : {V(1, 2)}, connection : {V(1, 0), V(1, 1)}]

NextMatch ==
    \/ Call_check_is04_in_is05
    \/ Call_check_is05_in_is04
    \/ test_03_is04_is05_rx_match(MatchNodePool, MatchConnPool)
    \/ test_04_is04_is05_tx_match(MatchNodePool, MatchConnPool)

SpecMatch == InitMatch /\ [][NextMatch]_vars

(***************************************************************************)
(* The version check of tests 5 and 6                                      *)
(***************************************************************************)

\* IS05Utils.compare_version: 1 when ver1 is newer than ver2, 0 when they are
\* equal and -1 when it is older.  Versions are held as integers.
compare_version(ver1, ver2) ==
    IF ver1 > ver2 THEN 1 ELSE IF ver1 = ver2 THEN 0 ELSE -1

\* The device during one activate_check_version: whether check_activation
\* succeeds for an id, and what GET node_url + kind + "/" + id returns.
Activation(id, current_ver, valid, response) ==
    [call |-> "check_activation", id |-> id, current_ver |-> current_ver,
     valid |-> valid, response |-> response]

NotRequested == [st |-> "none"]

Stop(ok, msg, log) == [done |-> TRUE, ok |-> ok, msg |-> msg, log |-> log]

\* The version test that accepts an unchanged version (== -1 for != 1)
version_changed_or_equal(new_ver, current_ver) ==
    compare_version(new_ver, current_ver) # -1

\* not (compare_version(new_ver, current_ver) != 1)
version_changed(new_ver, current_ver) ==
    compare_version(new_ver, current_ver) = 1

\* The inner loop of activate_check_version for one Connection id, over the
\* rest of the Node cache.  A KeyError is caught by the function's handler.
RECURSIVE activate_version_inner(_, _, _, _, _, _)
activate_version_inner(rest, resource_type, is05_resource, dev, found, log) ==
    IF rest = <<>> THEN [done |-> FALSE, found |-> found, log |-> log]
    ELSE LET is04_resource == Head(rest) IN
    IF ~HasKey(is04_resource, "id")
    THEN Stop(FALSE, "Version attribute was not found in IS-04 resource", log)
    ELSE IF is04_resource["id"] # is05_resource
    THEN activate_version_inner(Tail(rest), resource_type, is05_resource, dev, found, log)
    ELSE IF ~HasKey(is04_resource, "version")
    THEN Stop(FALSE, "Version attribute was not found in IS-04 resource", log)
    ELSE LET current_ver == is04_resource["version"]
             valid == dev.activation[is05_resource]
             response == dev.resource[is05_resource]
             entry == Activation(is05_resource, current_ver, valid,
                                 IF valid THEN response ELSE NotRequested)
         IN
    IF ~valid THEN Stop(FALSE, "check_activation failed", Append(log, entry))
    ELSE IF response.st = "fail"
    THEN Stop(FALSE, "Node API did not respond as expected", Append(log, entry))
    ELSE IF response.st = "nonjson"
    THEN Stop(FALSE, "Non-JSON response returned from Node API", Append(log, entry))
    ELSE IF ~HasKey(response.body, "version")
    THEN Stop(FALSE, "Version attribute was not found in IS-04 resource",
              Append(log, entry))
    ELSE IF ~version_changed(response.body["version"], current_ver)
    THEN Stop(FALSE, "IS-04 resource version did not change when activated",
              Append(log, entry))
    ELSE activate_version_inner(Tail(rest), resource_type, is05_resource, dev, TRUE,
                                Append(log, entry))

RECURSIVE activate_version_outer(_, _, _, _, _)
activate_version_outer(ids, nodes, resource_type, dev, log) ==
    IF ids = <<>> THEN [ok |-> TRUE, msg |-> "", log |-> log]
    ELSE LET r == activate_version_inner(nodes, resource_type, Head(ids), dev,
                                         FALSE, log) IN
         IF r.done THEN [ok |-> r.ok, msg |-> r.msg, log |-> r.log]
         ELSE IF ~r.found
         THEN [ok |-> FALSE, msg |-> "Unable to find an IS-04 resource with ID",
               log |-> r.log]
         ELSE activate_version_outer(Tail(ids), nodes, resource_type, dev, r.log)

\* The GETs of single resources that the logged activations were followed by
RefetchRequests(resource_type, log) ==
    LET sent == SelectSeq(log, LAMBDA e : e.valid) IN
    [i \in DOMAIN sent |-> GET(<<NODE_API_KEY, resource_type, sent[i].id>>)]

activate_check_version(c04, c05, resource_type, dev) ==
    LET r == activate_version_outer(c05[resource_type], c04[resource_type],
                                    resource_type, dev, <<>>)
    IN  [ok |-> r.ok, msg |-> r.msg, log |-> r.log,
         http |-> RefetchRequests(resource_type, r.log)]

Call_activate_check_version(Devices) ==
    \E k \in Kinds : \E dev \in Devices :
        LET r == activate_check_version(is04_resources, is05_resources, k, dev) IN
        /\ last' = [op |-> "activate_check_version", kind |-> k, ok |-> r.ok,
                    msg |-> r.msg, http |-> r.http, log |-> r.log]
        /\ UNCHANGED <<apis, is04_resources, is05_resources, ran, inp>>

\* The body of test_05 and test_06 without the return for an empty
\* Connection cache
activate_updates_ver_no_na(resource_type, c04, c05, resp04, resp05, dev) ==
    LET g4 == refresh_is04_resources(c04, resource_type, resp04)
        g5 == get_is05_resources(c05, resource_type, resp05)
        r == activate_check_version(g4.cache, g5.cache, resource_type, dev)
    IN  IF ~g4.ok THEN Verdict(g4.cache, c05, "FAIL", g4.msg, g4.http)
        ELSE IF ~g5.ok
        THEN Verdict(g4.cache, g5.cache, "FAIL", g5.msg, g4.http \o g5.http)
        ELSE IF ~r.ok
        THEN VerdictLog(g4.cache, g5.cache, "FAIL", r.msg,
                        g4.http \o g5.http \o r.http, r.log)
        ELSE VerdictLog(g4.cache, g5.cache, "PASS", "",
                        g4.http \o g5.http \o r.http, r.log)

\* The body that test_05 and test_06 share, for one kind.
activate_updates_ver(resource_type, c04, c05, resp04, resp05, dev) ==
    LET g4 == refresh_is04_resources(c04, resource_type, resp04)
        g5 == get_is05_resources(c05, resource_type, resp05)
        r == activate_check_version(g4.cache, g5.cache, resource_type, dev)
    IN  IF ~g4.ok THEN Verdict(g4.cache, c05, "FAIL", g4.msg, g4.http)
        ELSE IF ~g5.ok
        THEN Verdict(g4.cache, g5.cache, "FAIL", g5.msg, g4.http \o g5.http)
        ELSE IF Len(g5.cache[resource_type]) = 0
        THEN Verdict(g4.cache, g5.cache, "NA", "Could not find any IS-05 resources to test",
                     g4.http \o g5.http)
        ELSE IF ~r.ok
        THEN VerdictLog(g4.cache, g5.cache, "FAIL", r.msg,
                        g4.http \o g5.http \o r.http, r.log)
        ELSE VerdictLog(g4.cache, g5.cache, "PASS", "",
                        g4.http \o g5.http \o r.http, r.log)

test_05_rx_activate_updates_ver(NodePool, ConnPool, Devices) ==
    /\ 5 \notin ran
    /\ \E resp04 \in NodePool["receivers"] : \E resp05 \in ConnPool["receivers"] :
       \E dev \in Devices :
        Ran(5, "test_05_rx_activate_updates_ver", "receivers",
            activate_updates_ver("receivers", is04_resources, is05_resources,
                                 resp04, resp05, dev))

test_06_tx_activate_updates_ver(NodePool, ConnPool, Devices) ==
    /\ 6 \notin ran
    /\ \E resp04 \in NodePool["senders"] : \E resp05 \in ConnPool["senders"] :
       \E dev \in Devices :
        Ran(6, "test_06_tx_activate_updates_ver", "senders",
            activate_updates_ver("senders", is04_resources, is05_resources,
                                 resp04, resp05, dev))

\* Receivers a and b at versions 1 and 2, and objects that lack a key; the
\* senders, which the same code serves, have one listing.
VerNodePool ==
    [k \in Kinds |->
        IF k = "senders" THEN {RespFail, RespJson(<<Parked(k, IdA, 1)>>)}
        ELSE {RespFail, RespNonJson, RespJson(<<>>),
              RespJson(<<Parked(k, IdA, 1)>>),
              RespJson(<<Parked(k, IdB, 1), Parked(k, IdA, 2)>>),
              RespJson(<<Without(Parked(k, IdA, 1), "version")>>),
              RespJson(<<Parked(k, IdA, 1), Without(Parked(k, IdB, 1), "id")>>)}]

VerConnPool ==
    [k \in Kinds |->
        IF k = "senders" THEN {RespJson(<<>>), RespJson(<<<<"a", "/">>>>)}
        ELSE {RespFail, RespNonJson, RespJson(<<>>),
              RespJson(<<<<"a", "/">>>>),
              RespJson(<<<<"a", "/">>, <<"b">>>>)}]

\* What the device does when a resource is activated and read again: every
\* answer for a while b is bumped, and an activation or a bump of b that fails.
VerDevices ==
    {[activation |-> [id \in Ids |-> TRUE],
      resource |-> [id \in Ids |-> IF id = IdA THEN resp
                                   ELSE RespJson([version |-> 2])]] :
        resp \in {RespFail, RespNonJson, RespJson([id |-> IdA]),
                  RespJson([version |-> 1]), RespJson([version |-> 2]),
                  RespJson([version |-> 3])}}
    \cup {[activation |-> [id \in Ids |-> id # bad],
           resource |-> [id \in Ids |-> RespJson([version |-> 3])]] : bad \in Ids}
    \cup {[activation |-> [id \in Ids |-> TRUE],
           resource |-> [id \in Ids |-> IF id = IdA THEN RespJson([version |-> 3])
                                        ELSE RespJson([version |-> 1])]]}

InitVer ==
    /\ InitCommon
    /\ apis = [node |-> V(1, 2), connection |-> V(1, 0)]

NextVer ==
    \/ test_03_is04_is05_rx_match(VerNodePool, VerConnPool)
    \/ test_04_is04_is05_tx_match(VerNodePool, VerConnPool)
    \/ test_05_rx_activate_updates_ver(VerNodePool, VerConnPool, VerDevices)
    \/ test_06_tx_activate_updates_ver(VerNodePool, VerConnPool, VerDevices)
    \/ Call_activate_check_version(VerDevices)

SpecVer == InitVer /\ [][NextVer]_vars

(***************************************************************************)
(* The parking check of tests 7 and 8                                      *)
(***************************************************************************)

Park(id, valid) ==
    [call |-> "park_resource", id |-> id, current_ver |-> 0,
     valid |-> valid, response |-> NotRequested]

Refresh(resource_type, valid, response) ==
    [call |-> "refresh_is04_resources", id |-> <<resource_type>>, current_ver |-> 0,
     valid |-> valid, response |-> response]

\* The first loop of activate_check_parked: park every cached Connection id,
\* and return at the first park that fails.
RECURSIVE park_all(_, _, _)
park_all(ids, dev, log) ==
    IF ids = <<>> THEN [ok |-> TRUE, log |-> log]
    ELSE IF ~dev.park[Head(ids)]
    THEN [ok |-> FALSE, log |-> Append(log, Park(Head(ids), FALSE))]
    ELSE park_all(Tail(ids), dev, Append(log, Park(Head(ids), TRUE)))

\* if subscription["active"]: (truthiness for "is not False")
subscription_active_truthy(subscription) ==
    subscription["active"] = JBool(TRUE)

\* subscription["active"] is not False
subscription_active_is_not_false(subscription) ==
    subscription["active"] # JBool(FALSE)

\* api["major_version"] > 1 or (major == 1 and minor > 1)
node_has_active_key(api) ==
    api["major_version"] > 1
    \/ (api["major_version"] = 1 /\ api["minor_version"] > 1)

\* The inner loop of the check for one Connection id over the rest of the Node
\* cache.  A KeyError is caught by the function's handler.
RECURSIVE parked_inner(_, _, _, _, _)
parked_inner(rest, resource_type, is05_resource, api, found) ==
    IF rest = <<>> THEN [done |-> FALSE, found |-> found]
    ELSE LET is04_resource == Head(rest) IN
    IF ~HasKey(is04_resource, "id")
    THEN [done |-> TRUE, msg |-> "Subscription attribute was not found in IS-04 resource"]
    ELSE IF is04_resource["id"] # is05_resource
    THEN parked_inner(Tail(rest), resource_type, is05_resource, api, found)
    ELSE IF ~HasKey(is04_resource, "subscription")
    THEN [done |-> TRUE, msg |-> "Subscription attribute was not found in IS-04 resource"]
    ELSE LET subscription == is04_resource["subscription"]
             id_key == IF resource_type = "senders" THEN "receiver_id" ELSE "sender_id"
         IN
    IF node_has_active_key(api) /\ ~HasKey(subscription, "active")
    THEN [done |-> TRUE, msg |-> "Subscription attribute was not found in IS-04 resource"]
    ELSE IF node_has_active_key(api) /\ subscription_active_is_not_false(subscription)
    THEN [done |-> TRUE, msg |-> "was not marked as inactive when IS-05 master_enable set to false"]
    ELSE IF ~HasKey(subscription, id_key)
    THEN [done |-> TRUE, msg |-> "Subscription attribute was not found in IS-04 resource"]
    ELSE IF subscription[id_key] # JNull
    THEN [done |-> TRUE, msg |-> "still indicates a subscribed id when parked"]
    ELSE parked_inner(Tail(rest), resource_type, is05_resource, api, TRUE)

RECURSIVE parked_outer(_, _, _, _)
parked_outer(ids, nodes, resource_type, api) ==
    IF ids = <<>> THEN [ok |-> TRUE, msg |-> ""]
    ELSE LET r == parked_inner(nodes, resource_type, Head(ids), api, FALSE) IN
         IF r.done THEN [ok |-> FALSE, msg |-> r.msg]
         ELSE IF ~r.found
         THEN [ok |-> FALSE, msg |-> "Unable to find an IS-04 resource with ID"]
         ELSE parked_outer(Tail(ids), nodes, resource_type, api)

activate_check_parked(c04, c05, resource_type, dev, resp04, api) ==
    LET p == park_all(c05[resource_type], dev, <<>>)
        g4 == refresh_is04_resources(c04, resource_type, resp04)
        log == Append(p.log, Refresh(resource_type, g4.ok, resp04))
        r == parked_outer(c05[resource_type], g4.cache[resource_type],
                          resource_type, api)
    IN  IF ~p.ok
        THEN [cache |-> c04, ok |-> FALSE, msg |-> "park_resource failed",
              http |-> <<>>, log |-> p.log]
        ELSE IF ~g4.ok
        THEN [cache |-> g4.cache, ok |-> FALSE, msg |-> g4.msg,
              http |-> g4.http, log |-> log]
        ELSE [cache |-> g4.cache, ok |-> r.ok, msg |-> r.msg,
              http |-> g4.http, log |-> log]

\* The body that test_07 and test_08 share from the fetches on, for one kind.
\* resp04 answers the fetch and refreshed04 the refresh of the parking check.
activate_updates_sub(resource_type, c04, c05, resp04, resp05, dev, refreshed04, api) ==
    LET g4 == get_is04_resources(c04, resource_type, resp04)
        g5 == get_is05_resources(c05, resource_type, resp05)
        r == activate_check_parked(g4.cache, g5.cache, resource_type, dev,
                                   refreshed04, api)
    IN  IF ~g4.ok THEN Verdict(g4.cache, c05, "FAIL", g4.msg, g4.http)
        ELSE IF ~g5.ok
        THEN Verdict(g4.cache, g5.cache, "FAIL", g5.msg, g4.http \o g5.http)
        ELSE IF Len(g5.cache[resource_type]) = 0
        THEN Verdict(g4.cache, g5.cache, "NA", "Could not find any IS-05 resources to test",
                     g4.http \o g5.http)
        ELSE IF ~r.ok
        THEN VerdictLog(r.cache, g5.cache, "FAIL", r.msg,
                        g4.http \o g5.http \o r.http, r.log)
        ELSE VerdictLog(r.cache, g5.cache, "PASS", "",
                        g4.http \o g5.http \o r.http, r.log)

test_07_rx_activate_updates_sub(NodePool, ConnPool, Devices) ==
    /\ 7 \notin ran
    /\ \E resp04 \in NodePool["receivers"] : \E resp05 \in ConnPool["receivers"] :
       \E dev \in Devices : \E refreshed04 \in NodePool["receivers"] :
        Ran(7, "test_07_rx_activate_updates_sub", "receivers",
            activate_updates_sub("receivers", is04_resources, is05_resources,
                                 resp04, resp05, dev, refreshed04,
                                 apis[NODE_API_KEY]))

test_08_tx_activate_updates_sub(NodePool, ConnPool, Devices) ==
    /\ 8 \notin ran
    /\ IF apis[NODE_API_KEY]["major_version"] = 1
          /\ apis[NODE_API_KEY]["minor_version"] < 2
       THEN Ran(8, "test_08_tx_activate_updates_sub", "senders",
                Verdict(is04_resources, is05_resources, "NA",
                        "IS-04 v1.1 and earlier Senders do not have a subscription object",
                        <<>>))
       ELSE \E resp04 \in NodePool["senders"] : \E resp05 \in ConnPool["senders"] :
            \E dev \in Devices : \E refreshed04 \in NodePool["senders"] :
             Ran(8, "test_08_tx_activate_updates_sub", "senders",
                 activate_updates_sub("senders", is04_resources, is05_resources,
                                      resp04, resp05, dev, refreshed04,
                                      apis[NODE_API_KEY]))

\* A resource with a connection: active, and naming the other end.
Connected(k, id) ==
    NodeRes(k, id, RTP, 1, JBool(TRUE), JStr(<<"x">>), <<"eth0">>)

\* Receiver a connected, parked, and with a subscription that is short of a
\* parked one in one way; the senders, which the same code serves, have a
\* connected and a parked listing.
ParkNodePool ==
    [k \in Kinds |->
        IF k = "senders"
        THEN {RespJson(<<Connected(k, IdA)>>), RespJson(<<Parked(k, IdA, 2)>>)}
        ELSE {RespFail, RespNonJson,
              RespJson(<<Connected(k, IdA)>>),
              RespJson(<<Parked(k, IdA, 2)>>),
              RespJson(<<Parked(k, IdB, 2)>>),
              RespJson(<<Parked(k, IdA, 2), Parked(k, IdB, 2)>>),
              RespJson(<<[Parked(k, IdA, 2) EXCEPT
                            !.subscription = Subscription(k, JNull, JNull)]>>),
              RespJson(<<[Parked(k, IdA, 2) EXCEPT
                            !.subscription = Subscription(k, JBool(FALSE), JStr(<<"x">>))]>>),
              RespJson(<<[Parked(k, IdA, 2) EXCEPT
                            !.subscription = Without(@, "active")]>>),
              RespJson(<<Without(Parked(k, IdA, 2), "subscription")>>)}]

ParkConnPool ==
    [k \in Kinds |->
        IF k = "senders" THEN {RespJson(<<<<"a", "/">>>>)}
        ELSE {RespFail, RespJson(<<>>), RespJson(<<<<"a", "/">>>>),
              RespJson(<<<<"b">>, <<"a">>>>)}]

ParkDevices ==
    {[park |-> [id \in Ids |-> id # bad]] : bad \in {IdA, <<>>}}

InitPark ==
    /\ InitCommon
    /\ apis \in [node : {V(1, 1), V(1, 2), V(2, 0)}, connection : {V(1, 0)}]

NextPark ==
    \/ test_03_is04_is05_rx_match(ParkNodePool, ParkConnPool)
    \/ test_07_rx_activate_updates_sub(ParkNodePool, ParkConnPool, ParkDevices)
    \/ test_08_tx_activate_updates_sub(ParkNodePool, ParkConnPool, ParkDevices)

SpecPark == InitPark /\ [][NextPark]_vars

(***************************************************************************)
(* Test 9: interface bindings against transport_params                     *)
(***************************************************************************)

\* One GET of connection_url + "single/" + kind + "/" + id + "/active", with
\* the bindings_length it is compared with.
Active(resource_type, id, bindings_length, response) ==
    [call |-> "active", id |-> <<resource_type>> \o id,
     current_ver |-> bindings_length, valid |-> response.st # "fail",
     response |-> response]

ActiveRequests(log) ==
    [i \in DOMAIN log |-> GET(<<CONN_API_KEY, "single">> \o log[i].id \o <<"active">>)]

\* The test that lets a resource with more bindings than transport_params pass
length_mismatch_longer_only(trans_params_length, bindings_length) ==
    trans_params_length > bindings_length

\* trans_params_length != bindings_length
length_mismatch(trans_params_length, bindings_length) ==
    trans_params_length # bindings_length

\* The resources of one kind: the rest of that kind's Node cache.
RECURSIVE bindings_inner(_, _, _, _, _)
bindings_inner(rest, resource_type, valid_transports, dev, log) ==
    IF rest = <<>> THEN [done |-> FALSE, log |-> log]
    ELSE LET resource == Head(rest) IN
    IF ~HasKey(resource, "transport")
    THEN [done |-> TRUE, msg |-> "Expected attribute not found: transport", log |-> log]
    ELSE IF ~InList(resource["transport"], valid_transports)
    THEN bindings_inner(Tail(rest), resource_type, valid_transports, dev, log)
    ELSE IF ~HasKey(resource, "interface_bindings")
    THEN [done |-> TRUE, msg |-> "Expected attribute not found: interface_bindings",
          log |-> log]
    ELSE IF ~HasKey(resource, "id")
    THEN [done |-> TRUE, msg |-> "Expected attribute not found: id", log |-> log]
    ELSE LET bindings_length == Len(resource["interface_bindings"])
             result == dev.active[resource_type][resource["id"]]
             log1 == Append(log, Active(resource_type, resource["id"],
                                        bindings_length, result))
         IN
    IF result.st = "fail"
    THEN [done |-> TRUE, msg |-> "Connection API returned unexpected result", log |-> log1]
    ELSE IF result.st = "nonjson"
    THEN [done |-> TRUE, msg |-> "Non-JSON response returned from Connection API",
          log |-> log1]
    ELSE IF ~HasKey(result.body, "transport_params")
    THEN [done |-> TRUE, msg |-> "Expected attribute not found: transport_params",
          log |-> log1]
    ELSE IF length_mismatch(Len(result.body["transport_params"]), bindings_length)
    THEN [done |-> TRUE, msg |-> "Array length mismatch for Sender/Receiver ID",
          log |-> log1]
    ELSE bindings_inner(Tail(rest), resource_type, valid_transports, dev, log1)

\* for resource_type in ["senders", "receivers"]: the second loop of the test
RECURSIVE bindings_outer(_, _, _, _, _)
bindings_outer(kinds, c04, valid_transports, dev, log) ==
    IF kinds = <<>> THEN [ok |-> TRUE, msg |-> "", log |-> log]
    ELSE LET r == bindings_inner(c04[Head(kinds)], Head(kinds), valid_transports,
                                 dev, log) IN
         IF r.done THEN [ok |-> FALSE, msg |-> r.msg, log |-> r.log]
         ELSE bindings_outer(Tail(kinds), c04, valid_transports, dev, r.log)

interface_bindings_length(c04, c05, resp04s, resp04r, dev, api) ==
    LET gs == get_is04_resources(c04, "senders", resp04s)
        gr == get_is04_resources(gs.cache, "receivers", resp04r)
        r == bindings_outer(<<"senders", "receivers">>, gr.cache,
                            get_valid_transports(api), dev, <<>>)
    IN  IF ~gs.ok THEN Verdict(gs.cache, c05, "FAIL", gs.msg, gs.http)
        ELSE IF ~gr.ok THEN Verdict(gr.cache, c05, "FAIL", gr.msg, gs.http \o gr.http)
        ELSE VerdictLog(gr.cache, c05, IF r.ok THEN "PASS" ELSE "FAIL", r.msg,
                        gs.http \o gr.http \o ActiveRequests(r.log), r.log)

test_09_interface_bindings_length(NodePool, Devices) ==
    /\ 9 \notin ran
    /\ \E resp04s \in NodePool["senders"] : \E resp04r \in NodePool["receivers"] :
       \E dev \in Devices :
        Ran(9, "test_09_interface_bindings_length", "both",
            interface_bindings_length(is04_resources, is05_resources,
                                      resp04s, resp04r, dev, apis[CONN_API_KEY]))

\* A resource with n interface bindings.
Bound(k, id, transport, n) ==
    NodeRes(k, id, transport, 1, JBool(FALSE), JNull, [i \in 1..n |-> "eth"])

BindNodePool ==
    [k \in Kinds |->
        IF k = "senders"
        THEN {RespFail, RespJson(<<>>), RespJson(<<Bound(k, IdA, RTP, 1)>>),
              RespJson(<<Without(Bound(k, IdB, OTHER_TRANSPORT, 1), "interface_bindings")>>)}
        ELSE {RespFail, RespNonJson, RespJson(<<>>),
              RespJson(<<Bound(k, IdA, RTP, 1)>>),
              RespJson(<<Bound(k, IdA, RTP, 2)>>),
              RespJson(<<Bound(k, IdA, WEBSOCKET, 0)>>),
              RespJson(<<Without(Bound(k, IdA, OTHER_TRANSPORT, 1), "id")>>),
              RespJson(<<Bound(k, IdB, OTHER_TRANSPORT, 2), Bound(k, IdA, RTP, 1)>>),
              RespJson(<<Without(Bound(k, IdA, RTP, 1), "transport")>>),
              RespJson(<<Without(Bound(k, IdA, RTP, 1), "interface_bindings")>>),
              RespJson(<<Bound(k, IdA, RTP, 1), Bound(k, IdB, RTP, 1)>>)}]

BindConnPool ==
    [k \in Kinds |-> {RespFail, RespJson(<<<<"a", "/">>>>)}]

Params(n) == RespJson([transport_params |-> [i \in 1..n |-> "params"]])

\* What the Connection API answers for the active resource of a and of b.
BindDevices ==
    {[active |-> [k \in Kinds |-> [id \in Ids |-> IF id = IdA THEN ra ELSE rb]]] :
        ra \in {RespFail, RespNonJson, RespJson([id |-> IdA]),
                Params(0), Params(1), Params(2)},
        rb \in {Params(1), Params(2)}}

InitBind ==
    /\ InitCommon
    /\ apis \in [node : {V(1, 2)}, connection : {V(1, 0), V(1, 1)}]

NextBind ==
    \/ test_03_is04_is05_rx_match(BindNodePool, BindConnPool)
    \/ test_04_is04_is05_tx_match(BindNodePool, BindConnPool)
    \/ test_09_interface_bindings_length(BindNodePool, BindDevices)

SpecBind == InitBind /\ [][NextBind]_vars

(***************************************************************************)
(* Test 10: manifest_href against the transportfile                        *)
(***************************************************************************)

\* A do_request result whose .text is read: (True, response with that text)
RespText(text) == [st |-> "ok", text |-> text]

\* One sender of the loop: what the two sides held when they were compared.
FileCompared(id, is04_transport_file, is05_transport_file) ==
    [call |-> "transportfile", id |-> id,
     is04_transport_file |-> is04_transport_file,
     is05_transport_file |-> is05_transport_file]

\* The comparison under which "no content" equals any content
transport_file_differs_both_present(is04_transport_file, is05_transport_file) ==
    /\ is04_transport_file # JNull
    /\ is05_transport_file # JNull
    /\ is04_transport_file # is05_transport_file

\* is04_transport_file != is05_transport_file
transport_file_differs(is04_transport_file, is05_transport_file) ==
    is04_transport_file # is05_transport_file

\* for resource in self.is04_resources["senders"], from the rest of the cache
\* on; http collects the GETs of the loop.
RECURSIVE transport_files_inner(_, _, _, _, _)
transport_files_inner(rest, valid_transports, dev, http, log) ==
    IF rest = <<>> THEN [done |-> FALSE, msg |-> "", http |-> http, log |-> log]
    ELSE LET resource == Head(rest) IN
    IF ~HasKey(resource, "transport")
    THEN [done |-> TRUE, msg |-> "Expected attribute not found in IS-04 Sender: transport",
          http |-> http, log |-> log]
    ELSE IF ~InList(resource["transport"], valid_transports)
    THEN transport_files_inner(Tail(rest), valid_transports, dev, http, log)
    ELSE IF ~HasKey(resource, "manifest_href")
    THEN [done |-> TRUE,
          msg |-> "Expected attribute not found in IS-04 Sender: manifest_href",
          http |-> http, log |-> log]
    ELSE LET href == resource["manifest_href"]
             result4 == IF href # "" THEN dev.manifest[href] ELSE NotRequested
             http4 == IF href # "" THEN Append(http, GET(<<href>>)) ELSE http
             is04_transport_file ==
                 IF href # "" /\ result4.st # "fail" THEN JStr(result4.text)
                 ELSE JNull
         IN
    IF ~HasKey(resource, "id")
    THEN [done |-> TRUE, msg |-> "Expected attribute not found in IS-04 Sender: id",
          http |-> http4, log |-> log]
    ELSE LET result5 == dev.transportfile[resource["id"]]
             http5 == Append(http4, GET(<<CONN_API_KEY, "single", "senders">>
                                        \o resource["id"] \o <<"transportfile">>))
             is05_transport_file ==
                 IF result5.st # "fail" THEN JStr(result5.text) ELSE JNull
             log1 == Append(log, FileCompared(resource["id"], is04_transport_file,
                                              is05_transport_file))
         IN
    IF transport_file_differs(is04_transport_file, is05_transport_file)
    THEN [done |-> TRUE,
          msg |-> "Transport file contents do not match between IS-04 and IS-05",
          http |-> http5, log |-> log1]
    ELSE transport_files_inner(Tail(rest), valid_transports, dev, http5, log1)

transport_files_match(c04, c05, resp04, dev, api) ==
    LET g == get_is04_resources(c04, "senders", resp04)
        r == transport_files_inner(g.cache["senders"], get_valid_transports(api),
                                   dev, g.http, <<>>)
    IN  IF ~g.ok THEN Verdict(g.cache, c05, "FAIL", g.msg, g.http)
        ELSE VerdictLog(g.cache, c05, IF r.done THEN "FAIL" ELSE "PASS", r.msg,
                        r.http, r.log)

\* The test case; last also keeps the device the test ran against.
test_10_transport_files_match(NodePool, Devices) ==
    /\ 10 \notin ran
    /\ \E resp04 \in NodePool["senders"] : \E dev \in Devices :
        LET out == transport_files_match(is04_resources, is05_resources, resp04,
                                         dev, apis[CONN_API_KEY]) IN
        /\ is04_resources' = out.c04
        /\ is05_resources' = out.c05
        /\ ran' = ran \cup {10}
        /\ last' = [op |-> "test_10_transport_files_match", test |-> 10,
                    kind |-> "senders", verdict |-> out.verdict, msg |-> out.msg,
                    http |-> out.http, log |-> out.log, dev |-> dev]
        /\ UNCHANGED <<apis, inp>>

HrefA == "http://a/sdp"
HrefB == "http://b/sdp"
Hrefs == {HrefA, HrefB}

\* A sender with a manifest_href ("" when it has no transport file).
Sender(id, transport, manifest_href) ==
    LET r == NodeRes("senders", id, transport, 1, JBool(FALSE), JNull, <<"eth0">>)
    IN  [x \in DOMAIN r \cup {"manifest_href"} |->
            IF x = "manifest_href" THEN manifest_href ELSE r[x]]

FileNodePool ==
    [k \in Kinds |->
        IF k = "receivers" THEN {RespJson(<<>>)}
        ELSE {RespFail, RespNonJson, RespJson(<<>>),
              RespJson(<<Sender(IdA, RTP, "")>>),
              RespJson(<<Sender(IdA, RTP, HrefA)>>),
              RespJson(<<Sender(IdA, WEBSOCKET, HrefA)>>),
              RespJson(<<Sender(IdA, RTP, HrefA), Sender(IdB, RTP, HrefB)>>),
              RespJson(<<Sender(IdA, OTHER_TRANSPORT, HrefA), Sender(IdB, RTP, "")>>),
              RespJson(<<Without(Sender(IdA, RTP, HrefA), "manifest_href")>>),
              RespJson(<<Without(Sender(IdA, RTP, HrefA), "transport")>>),
              RespJson(<<Without(Sender(IdA, RTP, ""), "id")>>)}]

FileConnPool ==
    [k \in Kinds |-> {RespFail, RespJson(<<<<"a", "/">>>>)}]

\* What the two GETs of the loop answer, for each manifest_href and for each
\* sender's /transportfile.
FileDevices ==
    {[manifest |-> [h \in Hrefs |-> IF h = HrefA THEN ma ELSE mb],
      transportfile |-> [id \in Ids |-> IF id = IdA THEN ta ELSE tb]] :
        ma \in {RespFail, RespText("v1"), RespText("v2")},
        mb \in {RespFail, RespText("v1")},
        ta \in {RespFail, RespText(""), RespText("v1"), RespText("v2")},
        tb \in {RespFail, RespText("v1")}}

InitFile ==
    /\ InitCommon
    /\ apis \in [node : {V(1, 2)}, connection : {V(1, 0), V(1, 1)}]

NextFile ==
    \/ test_04_is04_is05_tx_match(FileNodePool, FileConnPool)
    \/ test_10_transport_files_match(FileNodePool, FileDevices)

SpecFile == InitFile /\ [][NextFile]_vars

(***************************************************************************)
(* Tests 1 and 2, and the ten test cases together                          *)
(***************************************************************************)

\* api["major_version"] > 1 or (== 1 and api["minor_version"] >= 2)
node_api_1_2_or_greater(api) ==
    api["major_version"] > 1
    \/ (api["major_version"] = 1 /\ api["minor_version"] >= 2)

node_api_version_check(c04, c05, api, resp) ==
    IF node_api_1_2_or_greater(api)
    THEN IF resp.st # "fail"
         THEN Verdict(c04, c05, "PASS", "", <<GET(<<NODE_API_KEY>>)>>)
         ELSE Verdict(c04, c05, "FAIL", "Node API did not respond as expected",
                      <<GET(<<NODE_API_KEY>>)>>)
    ELSE Verdict(c04, c05, "FAIL", "Node API must be running v1.2 or greater", <<>>)

test_01_node_api_1_2_or_greater(RootPool) ==
    /\ 1 \notin ran
    /\ \E resp \in RootPool :
        Ran(1, "test_01_node_api_1_2_or_greater", "none",
            node_api_version_check(is04_resources, is05_resources,
                                   apis[NODE_API_KEY], resp))

\* self.connection_url, the "url" of the Connection API under test
connection_url == MkUrl("http", "h", <<>>, <<"/", "p", "/">>, <<>>, <<>>)

\* "urn:x-nmos:control:sr-ctrl/" + version, for the version of api
SrCtrl(api) == [urn |-> "urn:x-nmos:control:sr-ctrl/", version |-> api]

\* for control in controls
RECURSIVE device_controls(_, _, _)
device_controls(controls, device_type, st) ==
    IF controls = <<>> THEN st
    ELSE LET control == Head(controls) IN
    IF ~HasKey(control, "type") THEN [st EXCEPT !.raised = TRUE]
    ELSE IF control["type"] # device_type
    THEN device_controls(Tail(controls), device_type, st)
    ELSE IF ~HasKey(control, "href") THEN [st EXCEPT !.raised = TRUE]
    ELSE device_controls(Tail(controls), device_type,
            [is05_devices |-> Append(st.is05_devices, control["href"]),
             found_api_match |-> st.found_api_match
                                 \/ compare_urls(connection_url, control["href"]),
             raised |-> FALSE])

\* for device in devices.json()
RECURSIVE device_loop(_, _, _)
device_loop(devices, device_type, st) ==
    IF devices = <<>> THEN st
    ELSE IF ~HasKey(Head(devices), "controls") THEN [st EXCEPT !.raised = TRUE]
    ELSE LET r == device_controls(Head(devices)["controls"], device_type, st) IN
         IF r.raised THEN r ELSE device_loop(Tail(devices), device_type, r)

device_control_present(c04, c05, api, devices) ==
    LET http == <<GET(<<NODE_API_KEY, "devices">>)>>
        r == device_loop(devices.body, SrCtrl(api),
                         [is05_devices |-> <<>>, found_api_match |-> FALSE,
                          raised |-> FALSE])
    IN  IF devices.st = "fail"
        THEN Verdict(c04, c05, "FAIL", "Node API did not respond as expected", http)
        ELSE IF devices.st = "nonjson"
        THEN Verdict(c04, c05, "FAIL", "Non-JSON response returned from Node API", http)
        ELSE IF r.raised
        THEN Verdict(c04, c05, "FAIL",
                     "One or more Devices were missing the 'controls' attribute", http)
        ELSE IF Len(r.is05_devices) > 0 /\ r.found_api_match
        THEN Verdict(c04, c05, "PASS", "", http)
        ELSE IF Len(r.is05_devices) > 0
        THEN Verdict(c04, c05, "FAIL",
                     "Found one or more Device controls, but no href matched", http)
        ELSE Verdict(c04, c05, "FAIL",
                     "Unable to find any Devices which expose the control type", http)

test_02_device_control_present(DevicePool) ==
    /\ 2 \notin ran
    /\ \E devices \in DevicePool :
        Ran(2, "test_02_device_control_present", "none",
            device_control_present(is04_resources, is05_resources,
                                   apis[CONN_API_KEY], devices))

\* A device with one control.
Device(type, href) == [controls |-> <<[type |-> type, href |-> href]>>]

AllRootPool == {RespFail, RespJson(<<>>)}

AllDevicePool ==
    {RespFail, RespNonJson, RespJson(<<>>),
     RespJson(<<Device(SrCtrl(V(1, 0)), MkUrl("http", "h", <<":", "80">>, <<"/", "p">>,
                                              <<>>, <<>>))>>),
     RespJson(<<Device(SrCtrl(V(1, 0)), MkUrl("http", "g", <<>>, <<"/", "p">>,
                                              <<>>, <<>>))>>),
     RespJson(<<Device(SrCtrl(V(1, 1)), connection_url)>>),
     RespJson(<<[id |-> IdA]>>)}

\* A Node API whose listings hold each id once: it has sender a and
\* receivers a and b, or does not answer for receivers.
AllNodePool ==
    [k \in Kinds |->
        IF k = "senders" THEN {RespJson(<<Sender(IdA, RTP, "")>>)}
        ELSE {RespFail, RespJson(<<Parked(k, IdA, 1), Parked(k, IdB, 1)>>)}]

AllConnPool ==
    [k \in Kinds |->
        IF k = "senders" THEN {RespJson(<<<<"a", "/">>>>)}
        ELSE {RespJson(<<>>), RespJson(<<<<"a", "/">>>>)}]

\* A device on which every activation and park succeeds and bumps the version,
\* with one transport parameter set per resource and no transport file.
AllDevices ==
    {[activation |-> [id \in Ids |-> TRUE],
      resource |-> [id \in Ids |-> RespJson([version |-> 2])],
      park |-> [id \in Ids |-> TRUE],
      active |-> [k \in Kinds |-> [id \in Ids |-> Params(1)]],
      manifest |-> [h \in Hrefs |-> RespFail],
      transportfile |-> [id \in Ids |-> RespFail]]}

InitAll ==
    /\ InitCommon
    /\ apis \in [node : {V(1, 1), V(1, 2)}, connection : {V(1, 0)}]

NextAll ==
    \/ test_01_node_api_1_2_or_greater(AllRootPool)
    \/ test_02_device_control_present(AllDevicePool)
    \/ test_03_is04_is05_rx_match(AllNodePool, AllConnPool)
    \/ test_04_is04_is05_tx_match(AllNodePool, AllConnPool)
    \/ test_05_rx_activate_updates_ver(AllNodePool, AllConnPool, AllDevices)
    \/ test_06_tx_activate_updates_ver(AllNodePool, AllConnPool, AllDevices)
    \/ test_07_rx_activate_updates_sub(AllNodePool, AllConnPool, AllDevices)
    \/ test_08_tx_activate_updates_sub(AllNodePool, AllConnPool, AllDevices)
    \/ test_09_interface_bindings_length(AllNodePool, AllDevices)
    \/ test_10_transport_files_match(AllNodePool, AllDevices)

SpecAll == InitAll /\ [][NextAll]_vars

\* The resource is one the Connection API has to expose: it has a transport,
\* and that transport is handled by this version of the Connection API.
InScope(resource) ==
    /\ HasKey(resource, "transport")
    /\ InList(resource["transport"], get_valid_transports(apis[CONN_API_KEY]))

\* Every in-scope Node resource of the kind has its id in the Connection cache.
Is04SubsetOfIs05(k) ==
    \A i \in DOMAIN is04_resources[k] :
        InScope(is04_resources[k][i])
        => /\ HasKey(is04_resources[k][i], "id")
           /\ InList(is04_resources[k][i]["id"], is05_resources[k])

\* Every id of the Connection cache is the id of some Node resource.
Is05SubsetOfIs04(k) ==
    \A j \in DOMAIN is05_resources[k] :
        \E i \in DOMAIN is04_resources[k] :
            /\ HasKey(is04_resources[k][i], "id")
            /\ is04_resources[k][i]["id"] = is05_resources[k][j]

\* Every object of the Node cache has the keys tests 3 and 4 read.
CompleteResources(k) ==
    \A i \in DOMAIN is04_resources[k] :
        HasKey(is04_resources[k][i], "transport") /\ HasKey(is04_resources[k][i], "id")

\* C5: check_is04_in_is05(K) returns true iff every Node-cache resource of K
\* whose transport is in get_valid_transports() has its id in the Connection
\* cache for K, for every content of the two caches.
C5_Is04InIs05 ==
    last.op = "check_is04_in_is05"
    => (last.result = Return(TRUE) <=> Is04SubsetOfIs05(last.kind))

\* The same on caches whose Node objects all have a transport and an id:
\* there the check returns, and returns that truth value.
C5_OnCompleteResources ==
    (last.op = "check_is04_in_is05" /\ CompleteResources(last.kind))
    => last.result = Return(Is04SubsetOfIs05(last.kind))

\* C6: check_is05_in_is04(K) returns true iff every id in the Connection cache
\* for K is the id of some resource in the Node cache for K, with no transport
\* filtering, for every content of the two caches.
C6_Is05InIs04 ==
    last.op = "check_is05_in_is04"
    => (last.result = Return(TRUE) <=> Is05SubsetOfIs04(last.kind))

\* The same on caches whose Node objects all have a transport and an id.
C6_OnCompleteResources ==
    (last.op = "check_is05_in_is04" /\ CompleteResources(last.kind))
    => last.result = Return(Is05SubsetOfIs04(last.kind))

\* C7: every test case returns exactly one verdict, PASS, FAIL or
\* NOT_APPLICABLE, for every device response; no error leaves the test case
\* uncaught.
C7_OneVerdict ==
    HasKey(last, "verdict") => last.verdict \in {"PASS", "FAIL", "NA"}

\* The logged activation ended with a re-fetched version newer than the one
\* captured from the Node cache.
Bumped(e) ==
    /\ e.valid
    /\ e.response.st = "ok"
    /\ HasKey(e.response.body, "version")
    /\ e.response.body["version"] > e.current_ver

\* The logged activation ended with a re-fetched version that is equal to or
\* older than the captured one.
NotBumped(e) ==
    /\ e.valid
    /\ e.response.st = "ok"
    /\ HasKey(e.response.body, "version")
    /\ e.response.body["version"] <= e.current_ver

\* Every cached Connection id of the kind has a Node entry, and for each of its
\* Node entries the activation succeeded and the re-fetch gave a newer version.
EveryActivationBumped(k, log) ==
    \A j \in DOMAIN is05_resources[k] :
        /\ \E i \in DOMAIN is04_resources[k] :
              /\ HasKey(is04_resources[k][i], "id")
              /\ is04_resources[k][i]["id"] = is05_resources[k][j]
        /\ \A i \in DOMAIN is04_resources[k] :
              /\ HasKey(is04_resources[k][i], "id")
              /\ is04_resources[k][i]["id"] = is05_resources[k][j]
                 => /\ HasKey(is04_resources[k][i], "version")
                    /\ \E n \in DOMAIN log :
                          /\ log[n].id = is05_resources[k][j]
                          /\ log[n].current_ver = is04_resources[k][i]["version"]
                          /\ Bumped(log[n])

\* C4: activate_check_version(kind) returns failure whenever the version
\* re-fetched after an activation is equal to or older than the version
\* captured from the Node cache before it, and returns success only if every
\* cached Connection id has a matching Node entry, its activation succeeds,
\* the re-fetch succeeds and the re-fetched version is strictly newer.
C4_VersionBump ==
    last.op = "activate_check_version"
    => /\ (\E n \in DOMAIN last.log : NotBumped(last.log[n])) => ~last.ok
       /\ last.ok => EveryActivationBumped(last.kind, last.log)

\* A second activation whose re-fetch brought the captured version back, after
\* a first one that bumped it.
C4_Witness ==
    /\ last.op = "activate_check_version"
    /\ ~last.ok
    /\ Len(last.log) = 2
    /\ Bumped(last.log[1])
    /\ NotBumped(last.log[2])
    /\ last.log[2].response.body["version"] = last.log[2].current_ver

\* C8: in tests 5 and 6, when the forced Node refresh and the Connection fetch
\* both succeed: with zero ids in the Connection cache of the kind the verdict
\* is NOT_APPLICABLE and no activation is invoked; with at least one id the
\* verdict is PASS or FAIL as activate_check_version decides, never
\* NOT_APPLICABLE.
C8_NotApplicableIffNoIds ==
    (/\ last.op \in {"test_05_rx_activate_updates_ver",
                     "test_06_tx_activate_updates_ver"}
     /\ InList(last.kind, is04_resources["_requested"])
     /\ InList(last.kind, is05_resources["_requested"]))
    => IF Len(is05_resources[last.kind]) = 0
       THEN /\ last.verdict = "NA"
            /\ last.log = <<>>
            /\ \A n \in DOMAIN last.http :
                  last.http[n].url \in {<<NODE_API_KEY, last.kind>>,
                                        <<CONN_API_KEY, "single", last.kind>>}
       ELSE /\ last.verdict \in {"PASS", "FAIL"}
            /\ last.verdict = "PASS"
               <=> /\ \A i \in DOMAIN is04_resources[last.kind] :
                         HasKey(is04_resources[last.kind][i], "id")
                   /\ EveryActivationBumped(last.kind, last.log)

\* Test 5 with a refreshed Node cache that holds receivers and a Connection
\* API that lists none.
C8_Witness ==
    /\ last.op = "test_05_rx_activate_updates_ver"
    /\ InList("receivers", is04_resources["_requested"])
    /\ InList("receivers", is05_resources["_requested"])
    /\ Len(is05_resources["receivers"]) = 0
    /\ Len(is04_resources["receivers"]) > 0
    /\ last.verdict = "NA"

\* Test 6 that passes: the Connection API lists a sender and its activation
\* bumps the version.
C8_WitnessPass ==
    /\ last.op = "test_06_tx_activate_updates_ver"
    /\ Len(is05_resources["senders"]) > 0
    /\ last.verdict = "PASS"

\* The calls of park_resource and the forced refresh that the parking check of
\* the last test case made.
ParkCalls == SelectSeq(last.log, LAMBDA e : e.call = "park_resource")
RefreshCalls == SelectSeq(last.log, LAMBDA e : e.call = "refresh_is04_resources")

NodeAtLeast12 ==
    \/ apis[NODE_API_KEY]["major_version"] > 1
    \/ /\ apis[NODE_API_KEY]["major_version"] = 1
       /\ apis[NODE_API_KEY]["minor_version"] >= 2

\* The Node object shows a parked resource of the kind.
ShowsParked(k, resource) ==
    /\ HasKey(resource, "subscription")
    /\ HasKey(resource["subscription"], "active")
    /\ resource["subscription"]["active"] = JBool(FALSE)
    /\ HasKey(resource["subscription"], CrossKey(k))
    /\ resource["subscription"][CrossKey(k)] = JNull

\* The listing has an entry for every cached Connection id of the kind, and
\* its entries for those ids all show a parked resource.
ListingShowsAllParked(k, listing) ==
    /\ \A i \in DOMAIN listing : HasKey(listing[i], "id")
    /\ \A j \in DOMAIN is05_resources[k] :
          /\ \E i \in DOMAIN listing : listing[i]["id"] = is05_resources[k][j]
          /\ \A i \in DOMAIN listing :
                listing[i]["id"] = is05_resources[k][j] => ShowsParked(k, listing[i])

\* C2: the parking check judges the Node state read after the park: if every
\* park_resource call succeeds, the forced refresh succeeds and the listing
\* that refresh returned shows every cached Connection id parked, the check
\* returns success, whatever the Node cache held before the refresh.
C2_JudgesRefreshedListing ==
    (/\ last.op \in {"test_07_rx_activate_updates_sub",
                     "test_08_tx_activate_updates_sub"}
     /\ ParkCalls # <<>>
     /\ \A n \in DOMAIN ParkCalls : ParkCalls[n].valid
     /\ RefreshCalls # <<>>
     /\ RefreshCalls[1].valid
     /\ ListingShowsAllParked(last.kind, RefreshCalls[1].response.body))
    => last.verdict = "PASS"

\* Some cached Connection id of the kind has no Node entry, or has a Node
\* entry without a subscription, with a subscription whose active is not
\* exactly false (Node API v1.2 or later), or with a non-null cross id.
SomeNotParked(k) ==
    \E j \in DOMAIN is05_resources[k] :
        \/ ~\E i \in DOMAIN is04_resources[k] :
               /\ HasKey(is04_resources[k][i], "id")
               /\ is04_resources[k][i]["id"] = is05_resources[k][j]
        \/ \E i \in DOMAIN is04_resources[k] :
               /\ HasKey(is04_resources[k][i], "id")
               /\ is04_resources[k][i]["id"] = is05_resources[k][j]
               /\ \/ ~HasKey(is04_resources[k][i], "subscription")
                  \/ /\ NodeAtLeast12
                     /\ \/ ~HasKey(is04_resources[k][i]["subscription"], "active")
                        \/ is04_resources[k][i]["subscription"]["active"] # JBool(FALSE)
                  \/ /\ HasKey(is04_resources[k][i]["subscription"], CrossKey(k))
                     /\ is04_resources[k][i]["subscription"][CrossKey(k)] # JNull

\* C3: activate_check_parked(kind) returns failure whenever some cached
\* Connection id has a Node entry whose subscription.active is anything but
\* false under Node API >= 1.2, or whose cross id is non-null, or that has no
\* subscription key, or has no matching Node entry at all.
C3_ParkedCheckFails ==
    (/\ last.op \in {"test_07_rx_activate_updates_sub",
                     "test_08_tx_activate_updates_sub"}
     /\ ParkCalls # <<>>
     /\ SomeNotParked(last.kind))
    => last.verdict = "FAIL"

\* Test 7 against Node API v1.2 or later: the parks and the refresh succeed,
\* the refreshed listing holds the only Node entry, whose active is null, and
\* the verdict is FAIL.
C3_Witness ==
    /\ last.op = "test_07_rx_activate_updates_sub"
    /\ NodeAtLeast12
    /\ ParkCalls # <<>>
    /\ \A n \in DOMAIN ParkCalls : ParkCalls[n].valid
    /\ RefreshCalls # <<>> /\ RefreshCalls[1].valid
    /\ \E i \in DOMAIN is04_resources["receivers"] :
          /\ HasKey(is04_resources["receivers"][i], "subscription")
          /\ HasKey(is04_resources["receivers"][i]["subscription"], "active")
          /\ is04_resources["receivers"][i]["subscription"]["active"] = JNull
    /\ last.verdict = "FAIL"

\* The in-scope resources of both Node caches, as <<kind, index>>.
InScopeResources ==
    {ki \in Kinds \X (1..(Len(is04_resources["senders"]) + Len(is04_resources["receivers"]))) :
        /\ ki[2] \in DOMAIN is04_resources[ki[1]]
        /\ InScope(is04_resources[ki[1]][ki[2]])}

\* The Connection API was asked for the active resource of this Node
\* resource and answered with JSON that has transport_params.
Compared(e, k, resource) ==
    /\ HasKey(resource, "id")
    /\ HasKey(resource, "interface_bindings")
    /\ e.call = "active"
    /\ e.id = <<k>> \o resource["id"]
    /\ e.current_ver = Len(resource["interface_bindings"])
    /\ e.response.st = "ok"
    /\ HasKey(e.response.body, "transport_params")

\* For some in-scope resource the two lengths were compared and differ.
SomeLengthDiffers ==
    \E ki \in InScopeResources : \E n \in DOMAIN last.log :
        /\ Compared(last.log[n], ki[1], is04_resources[ki[1]][ki[2]])
        /\ Len(last.log[n].response.body["transport_params"])
           # Len(is04_resources[ki[1]][ki[2]]["interface_bindings"])

\* For every in-scope resource the two lengths were compared and are equal.
AllLengthsMatch ==
    \A ki \in InScopeResources : \E n \in DOMAIN last.log :
        /\ Compared(last.log[n], ki[1], is04_resources[ki[1]][ki[2]])
        /\ Len(last.log[n].response.body["transport_params"])
           = Len(is04_resources[ki[1]][ki[2]]["interface_bindings"])

\* Every request to the Connection API was for an in-scope Node resource.
OnlyInScopeRequested ==
    \A n \in DOMAIN last.http :
        last.http[n].url[1] = CONN_API_KEY
        => \E ki \in InScopeResources :
              /\ HasKey(is04_resources[ki[1]][ki[2]], "id")
              /\ last.http[n].url
                 = <<CONN_API_KEY, "single", ki[1]>>
                   \o is04_resources[ki[1]][ki[2]]["id"] \o <<"active">>

\* C10 as claimed: test 9 returns FAIL when the lengths of some in-scope
\* resource differ and PASS when all lengths match, zero in-scope resources
\* included; out-of-scope resources are never requested.
C10_BindingsLength ==
    last.op = "test_09_interface_bindings_length"
    => /\ SomeLengthDiffers => last.verdict = "FAIL"
       /\ AllLengthsMatch => last.verdict = "PASS"
       /\ OnlyInScopeRequested

\* Test 9 got both Node listings (now or earlier) and every cached Node
\* resource has a transport key.
BindingsCompared ==
    /\ InList("senders", is04_resources["_requested"])
    /\ InList("receivers", is04_resources["_requested"])
    /\ \A k \in Kinds : \A i \in DOMAIN is04_resources[k] :
          HasKey(is04_resources[k][i], "transport")

\* C10 as amended: the same, with PASS claimed only when test 9 got both Node
\* listings and every cached Node resource has a transport key.
C10_BindingsLengthWhenFetched ==
    last.op = "test_09_interface_bindings_length"
    => /\ SomeLengthDiffers => last.verdict = "FAIL"
       /\ (BindingsCompared /\ AllLengthsMatch) => last.verdict = "PASS"
       /\ (BindingsCompared /\ InScopeResources = {})
          => \A n \in DOMAIN last.http : last.http[n].url[1] # CONN_API_KEY
       /\ OnlyInScopeRequested

\* Test 9 passes with an in-scope receiver whose lengths match next to an
\* out-of-scope one whose lengths would not.
C10_Witness ==
    /\ last.op = "test_09_interface_bindings_length"
    /\ last.verdict = "PASS"
    /\ Len(last.log) = 1
    /\ Len(is04_resources["receivers"]) = 2
    /\ BindingsCompared

\* What the spec calls the Node-side content of a sender: None when its
\* manifest_href is empty or the GET of it fails, else the text it serves.
NodeSideContent(resource, dev) ==
    IF resource["manifest_href"] = "" THEN JNull
    ELSE IF dev.manifest[resource["manifest_href"]].st = "fail" THEN JNull
    ELSE JStr(dev.manifest[resource["manifest_href"]].text)

\* The Connection-side content: None when the /transportfile GET fails.
ConnSideContent(resource, dev) ==
    IF dev.transportfile[resource["id"]].st = "fail" THEN JNull
    ELSE JStr(dev.transportfile[resource["id"]].text)

\* Some in-scope cached sender has contents that differ on the two sides.
SomeSenderDiffers(dev) ==
    \E i \in DOMAIN is04_resources["senders"] :
        LET resource == is04_resources["senders"][i] IN
        /\ InScope(resource)
        /\ HasKey(resource, "manifest_href")
        /\ HasKey(resource, "id")
        /\ NodeSideContent(resource, dev) # ConnSideContent(resource, dev)

\* The in-scope senders of the cache, in cache order.
InScopeSenders == SelectSeq(is04_resources["senders"], InScope)

\* The contents test 10 compared are those of the in-scope senders, in order,
\* and the verdict is FAIL iff some in-scope sender differs.
FilesJudged ==
    /\ Len(last.log) <= Len(InScopeSenders)
    /\ \A n \in DOMAIN last.log :
          /\ HasKey(InScopeSenders[n], "manifest_href")
          /\ HasKey(InScopeSenders[n], "id")
          /\ last.log[n].id = InScopeSenders[n]["id"]
          /\ last.log[n].is04_transport_file
                = NodeSideContent(InScopeSenders[n], last.dev)
          /\ last.log[n].is05_transport_file
                = ConnSideContent(InScopeSenders[n], last.dev)
    /\ last.verdict \in {"PASS", "FAIL"}
    /\ last.verdict = "FAIL" <=> SomeSenderDiffers(last.dev)

\* C11: in test 10, for every in-scope-transport sender the Node-side content
\* is None when manifest_href is empty or its GET fails, the Connection-side
\* content is None when the /transportfile GET fails, and the verdict is FAIL
\* if and only if for some such sender the two contents differ (None versus
\* non-None included); the test PASSes when every in-scope sender matches.
C11_TransportFiles ==
    last.op = "test_10_transport_files_match" => FilesJudged

\* Every cached sender has a transport, and the in-scope ones have the
\* manifest_href and id that test 10 reads.
SendersComplete ==
    \A i \in DOMAIN is04_resources["senders"] :
        /\ HasKey(is04_resources["senders"][i], "transport")
        /\ InScope(is04_resources["senders"][i])
           => /\ HasKey(is04_resources["senders"][i], "manifest_href")
              /\ HasKey(is04_resources["senders"][i], "id")

\* C11, as it holds: the same, when the test obtained the senders listing and
\* the cached senders have the keys the test reads.
C11_TransportFilesWhenFetched ==
    (/\ last.op = "test_10_transport_files_match"
     /\ InList("senders", is04_resources["_requested"])
     /\ SendersComplete)
    => FilesJudged

\* Test 10 passes on a sender with an empty manifest_href whose /transportfile
\* GET fails: None on both sides.
C11_Witness ==
    /\ last.op = "test_10_transport_files_match"
    /\ last.verdict = "PASS"
    /\ Len(last.log) >= 1
    /\ \E n \in DOMAIN last.log :
          /\ InScopeSenders[n]["manifest_href"] = ""
          /\ last.dev.transportfile[InScopeSenders[n]["id"]].st = "fail"
          /\ last.log[n].is04_transport_file = JNull
          /\ last.log[n].is05_transport_file = JNull

\* The kind's Node cache holds no two entries with the same id.
OneEntryPerId(k) ==
    \A i, j \in DOMAIN is04_resources[k] :
        (/\ i # j
         /\ HasKey(is04_resources[k][i], "id")
         /\ HasKey(is04_resources[k][j], "id"))
        => is04_resources[k][i]["id"] # is04_resources[k][j]["id"]

\* The last test case invoked the activation at most once for each id.
OneActivationPerId ==
    \A m, n \in DOMAIN last.log :
        (/\ m # n
         /\ last.log[m].call = "check_activation"
         /\ last.log[n].call = "check_activation")
        => last.log[m].id # last.log[n].id

\* C12: against a Node API whose listing for a kind returns each id at most
\* once, after any sequence of the test cases 1-10 (in any order, each at most
\* once) the Node cache for that kind holds at most one entry per id, and
\* consequently activate_check_version invokes the activation once per cached
\* Connection id.
C12_OneEntryPerId ==
    /\ \A k \in Kinds : OneEntryPerId(k)
    /\ last.op \in {"test_05_rx_activate_updates_ver",
                    "test_06_tx_activate_updates_ver"}
       => OneActivationPerId

====
